---- MODULE Spec2Model ----
(***************************************************************************)
(* Ambulance detection system (src/main.py): the stream loop of            *)
(* process_video_stream, the detection filter of detect_in_frame, and the  *)
(* emergency signal controller (trigger_emergency_protocol on the loop     *)
(* thread, reset_emergency_protocol on threading.Timer threads).           *)
(*                                                                         *)
(* The loop thread is modelled statement by statement (pc), and every      *)
(* Timer thread by its position in reset_emergency_protocol, so that the   *)
(* two threads interleave at statement level: the program takes no lock.   *)
(* Time is discrete: Tick advances every pending timer by one unit.        *)
(* Confidences are in tenths (7 is 0.7), box coordinates in tenths of a    *)
(* pixel.                                                                  *)
(***************************************************************************)
EXTENDS Integers, Sequences, FiniteSets

VARIABLES
    pc,                    \* position of the loop thread in process_video_stream
    confidence_threshold,  \* self.confidence_threshold
    frame,                 \* what self.model(frame) reports for the frame read
    detections,            \* the local detections of process_video_stream
    emergency_active,      \* self.emergency_active
    traffic_signal_state,  \* self.traffic_signal_state
    stats,                 \* self.stats
    timers,                \* started threading.Timer objects: time left of each
    reset_at_124,          \* Timer threads about to run line 124
    reset_at_125,          \* Timer threads about to run line 125
    overlay,               \* what add_info_overlay read for the frame
    raised,                \* an exception is propagating out of the loop
    cap_open,              \* the VideoCapture is opened and not released
    elapsed,               \* ticks since emergency_active last became True
    sighted,               \* ambulance boxes above threshold in counted frames
    transitions,           \* times emergency_active went from False to True
    processing_time,       \* the local processing_time, in milliseconds
    fps_counter,           \* the deque fps_counter
    avg_fps,               \* the local avg_fps, as the fraction num / den
    samples,               \* every fps sample appended so far, oldest first
    exit_code,             \* the exit status of the process, once it has ended
    released               \* calls of cap.release() so far

vars == <<pc, confidence_threshold, frame, detections, emergency_active,
          traffic_signal_state, stats, timers, reset_at_124, reset_at_125,
          overlay, raised, cap_open, elapsed, sighted, transitions,
          processing_time, fps_counter, avg_fps, samples, exit_code, released>>

----------------------------------------------------------------------------
(* Bounds and program constants *)

MaxBoxes == 2

MaxDetections == 4

MaxSamples == 32

MaxUnusual == 1

MaxFirings == 2

FpsWindow == 30

DefaultThreshold == 7

DwellTime == 30

----------------------------------------------------------------------------
(* str.lower() *)

UpperLetters ==
    <<"A","B","C","D","E","F","G","H","I","J","K","L","M",
      "N","O","P","Q","R","S","T","U","V","W","X","Y","Z">>

LowerLetters ==
    <<"a","b","c","d","e","f","g","h","i","j","k","l","m",
      "n","o","p","q","r","s","t","u","v","w","x","y","z">>

LowerChar(c) ==
    IF \E i \in 1..26 : UpperLetters[i] = c
    THEN LowerLetters[CHOOSE i \in 1..26 : UpperLetters[i] = c]
    ELSE c

Lower(s) == [i \in 1..Len(s) |-> LowerChar(s[i])]

AmbulanceLiteral == <<"a","m","b","u","l","a","n","c","e">>

\* self.model.names: class id -> class name
ModelNames ==
    << <<"a","m","b","u","l","a","n","c","e">>,
       <<"A","m","b","u","l","a","n","c","e">>,
       <<"A","M","B","U","L","A","N","C","E">>,
       <<"c","a","r">> >>

\* int(x) of a coordinate given in tenths: truncation toward zero
IntTrunc(v) == IF v >= 0 THEN v \div 10 ELSE -((-v) \div 10)

----------------------------------------------------------------------------
(* Inputs *)

SeqsUpTo(S, n) == UNION {[1..k -> S] : k \in 0..n}

Confidences == {5, 7, 9}

BoxCoords == {<<15, 27, 48, 99>>, <<-5, 0, 309, 301>>}

RawBoxes == [conf : Confidences, cls : 1..Len(ModelNames), xyxy : BoxCoords]

\* one result of self.model(frame): boxes is None, or a list of boxes
ResultsOver(B) ==
    {[none |-> TRUE, items |-> <<>>]}
        \cup {[none |-> FALSE, items |-> s] : s \in SeqsUpTo(B, MaxBoxes)}

\* the frames of the stream: an ambulance, an ambulance at the threshold, a car
StreamBoxes ==
    {[conf |-> 9, cls |-> 1, xyxy |-> <<15, 27, 48, 99>>],
     [conf |-> 7, cls |-> 2, xyxy |-> <<15, 27, 48, 99>>],
     [conf |-> 9, cls |-> 4, xyxy |-> <<15, 27, 48, 99>>]}

StreamFrames == {<<r>> : r \in ResultsOver(StreamBoxes)}

FilterFrames == {<<r>> : r \in ResultsOver(RawBoxes)}

Thresholds == {5, 7, 9}

\* time.time() - start_time in milliseconds: the clock may stand still or
\* step back between the two readings
FrameTimes == {-50, 0, 20, 50}

SteadyTimes == {0, 20}

QuietFrame == <<[none |-> TRUE, items |-> <<>>]>>

NoFrame == <<>>

NoOverlay == [color |-> "none", emergency |-> "none", signal |-> "none"]

\* a local not assigned yet, and an assigned one: <<>> and <<value>>
NoTime == <<>>

NoAverage == [num |-> 0, den |-> 0]

NotExited == <<>>

----------------------------------------------------------------------------
(* detect_in_frame *)

KeepsBox_AtLeast(box, thr) ==
    /\ box.conf >= thr
    /\ Lower(ModelNames[box.cls]) = AmbulanceLiteral

\* lines 65-70: the two tests a box passes to be appended
KeepsBox(box, thr) ==
    /\ box.conf > thr
    /\ Lower(ModelNames[box.cls]) = AmbulanceLiteral

\* lines 71-76
Detection(box) ==
    [bbox |-> [k \in 1..4 |-> IntTrunc(box.xyxy[k])], confidence |-> box.conf]

RECURSIVE ScanBoxes(_, _, _, _)
\* lines 62-77: the loop over the boxes of one result
ScanBoxes(boxes, i, thr, acc) ==
    IF i > Len(boxes) THEN acc
    ELSE ScanBoxes(boxes, i + 1, thr,
                   IF KeepsBox(boxes[i], thr)
                   THEN Append(acc, Detection(boxes[i]))
                   ELSE acc)

RECURSIVE ScanResults(_, _, _, _)
\* lines 59-61: the loop over the results, skipping a result without boxes
ScanResults(results, r, thr, acc) ==
    IF r > Len(results) THEN acc
    ELSE ScanResults(results, r + 1, thr,
                     IF results[r].none THEN acc
                     ELSE ScanBoxes(results[r].items, 1, thr, acc))

detect_in_frame(results, thr) == ScanResults(results, 1, thr, <<>>)

----------------------------------------------------------------------------
(* Initial state: after __init__, before process_video_stream *)

Init ==
    /\ pc = "main"
    /\ confidence_threshold = DefaultThreshold
    /\ frame = NoFrame
    /\ detections = <<>>
    /\ emergency_active = FALSE
    /\ traffic_signal_state = "RED"
    /\ stats = [total_detections |-> 0, signal_changes |-> 0]
    /\ timers = <<>>
    /\ reset_at_124 = 0
    /\ reset_at_125 = 0
    /\ overlay = NoOverlay
    /\ raised = FALSE
    /\ cap_open = FALSE
    /\ elapsed = 0
    /\ sighted = 0
    /\ transitions = 0
    /\ processing_time = NoTime
    /\ fps_counter = <<>>
    /\ avg_fps = NoAverage
    /\ samples = <<>>
    /\ exit_code = NotExited
    /\ released = 0

----------------------------------------------------------------------------
(* The loop thread: process_video_stream *)

controller ==
    <<emergency_active, traffic_signal_state, stats, timers,
      reset_at_124, reset_at_125, elapsed>>

fpsLocals == <<processing_time, fps_counter, avg_fps, samples>>

\* the ambulance boxes above the threshold among what the model reported
Sightings(results, thr) ==
    UNION {{<<r, i>> : i \in
               {j \in 1..Len(results[r].items) :
                   /\ results[r].items[j].conf > thr
                   /\ ModelNames[results[r].items[j].cls] \in
                         {ModelNames[1], ModelNames[2], ModelNames[3]}}}
           : r \in {q \in 1..Len(results) : ~results[q].none}}

\* lines 135-136: the source opens
OpenOk ==
    /\ pc = "open"
    /\ pc' = "read"
    /\ cap_open' = TRUE
    /\ UNCHANGED <<confidence_threshold, frame, detections, controller,
                   overlay, raised, sighted>>
    /\ UNCHANGED <<transitions, fpsLocals, exit_code, released>>

\* lines 136-138: the source does not open; return before the try block
OpenFails ==
    /\ pc = "open"
    /\ pc' = "returned"
    /\ UNCHANGED <<confidence_threshold, frame, detections, controller,
                   overlay, raised, cap_open, sighted>>
    /\ UNCHANGED <<transitions, fpsLocals, exit_code, released>>

\* line 145, ret true: a frame arrives
ReadFrame ==
    /\ pc = "read"
    /\ stats.total_detections + MaxBoxes <= MaxDetections
    /\ \E f \in StreamFrames : frame' = f
    /\ pc' = "detect"
    /\ UNCHANGED <<confidence_threshold, detections, controller, overlay,
                   raised, cap_open, sighted>>
    /\ UNCHANGED <<transitions, fpsLocals, exit_code, released>>

\* lines 145-148, ret false: end of stream, break
ReadEnd ==
    /\ pc = "read"
    /\ pc' = "finally"
    /\ UNCHANGED <<confidence_threshold, frame, detections, controller,
                   overlay, raised, cap_open, sighted>>
    /\ UNCHANGED <<transitions, fpsLocals, exit_code, released>>

\* line 152
Detect ==
    /\ pc = "detect"
    /\ detections' = detect_in_frame(frame, confidence_threshold)
    /\ pc' = "count"
    /\ UNCHANGED <<confidence_threshold, frame, controller, overlay, raised,
                   cap_open, sighted>>
    /\ UNCHANGED <<transitions, fpsLocals, exit_code, released>>

DetectFails_SkipsFinally ==
    /\ pc = "detect"
    /\ raised' = TRUE
    /\ pc' = "done"
    /\ UNCHANGED <<confidence_threshold, frame, detections, controller,
                   overlay, cap_open, sighted>>
    /\ UNCHANGED <<transitions, fpsLocals, exit_code, released>>

\* line 152 raises: nothing catches it, the finally block runs
DetectFails ==
    /\ pc = "detect"
    /\ raised' = TRUE
    /\ pc' = "finally"
    /\ UNCHANGED <<confidence_threshold, frame, detections, controller,
                   overlay, cap_open, sighted>>
    /\ UNCHANGED <<transitions, fpsLocals, exit_code, released>>

CountDetections_One ==
    /\ pc = "count"
    /\ IF detections # <<>>
       THEN /\ stats' = [stats EXCEPT !.total_detections = @ + 1]
            /\ pc' = "trig_check"
       ELSE /\ stats' = stats
            /\ pc' = "draw"
    /\ sighted' = sighted + Cardinality(Sightings(frame, confidence_threshold))
    /\ UNCHANGED <<confidence_threshold, frame, detections, emergency_active,
                   traffic_signal_state, timers, reset_at_124, reset_at_125,
                   elapsed, overlay, raised, cap_open>>
    /\ UNCHANGED <<transitions, fpsLocals, exit_code, released>>

CountDetections_Always ==
    /\ pc = "count"
    /\ stats' = [stats EXCEPT !.total_detections = @ + Len(detections)]
    /\ pc' = "trig_check"
    /\ sighted' = sighted + Cardinality(Sightings(frame, confidence_threshold))
    /\ UNCHANGED <<confidence_threshold, frame, detections, emergency_active,
                   traffic_signal_state, timers, reset_at_124, reset_at_125,
                   elapsed, overlay, raised, cap_open>>
    /\ UNCHANGED <<transitions, fpsLocals, exit_code, released>>

\* lines 154-156: count the detections and call the trigger, or skip both
CountDetections ==
    /\ pc = "count"
    /\ IF detections # <<>>
       THEN /\ stats' = [stats EXCEPT !.total_detections = @ + Len(detections)]
            /\ pc' = "trig_check"
       ELSE /\ stats' = stats
            /\ pc' = "draw"
    /\ sighted' = sighted + Cardinality(Sightings(frame, confidence_threshold))
    /\ UNCHANGED <<confidence_threshold, frame, detections, emergency_active,
                   traffic_signal_state, timers, reset_at_124, reset_at_125,
                   elapsed, overlay, raised, cap_open>>
    /\ UNCHANGED <<transitions, fpsLocals, exit_code, released>>

loopLocals == <<confidence_threshold, frame, detections, overlay, raised,
                cap_open, sighted>>

TriggerCheck_NoGuard ==
    /\ pc = "trig_check"
    /\ pc' = "trig_active"
    /\ UNCHANGED <<controller, loopLocals>>
    /\ UNCHANGED <<transitions, fpsLocals, exit_code, released>>

\* line 110: trigger_emergency_protocol tests the flag and returns if it is set
TriggerCheck ==
    /\ pc = "trig_check"
    /\ pc' = IF ~emergency_active THEN "trig_active" ELSE "draw"
    /\ UNCHANGED <<controller, loopLocals>>
    /\ UNCHANGED <<transitions, fpsLocals, exit_code, released>>

\* line 111
TriggerActive ==
    /\ pc = "trig_active"
    /\ emergency_active' = TRUE
    /\ elapsed' = 0
    /\ pc' = "trig_signal"
    /\ UNCHANGED <<traffic_signal_state, stats, timers, reset_at_124,
                   reset_at_125, loopLocals>>
    /\ transitions' = transitions + (IF emergency_active THEN 0 ELSE 1)
    /\ UNCHANGED <<fpsLocals, exit_code, released>>

\* line 112
TriggerSignal ==
    /\ pc = "trig_signal"
    /\ traffic_signal_state' = "GREEN"
    /\ pc' = "trig_stats"
    /\ UNCHANGED <<emergency_active, stats, timers, reset_at_124,
                   reset_at_125, elapsed, loopLocals>>
    /\ UNCHANGED <<transitions, fpsLocals, exit_code, released>>

\* line 113
TriggerStats ==
    /\ pc = "trig_stats"
    /\ stats' = [stats EXCEPT !.signal_changes = @ + 1]
    /\ pc' = "trig_arm"
    /\ UNCHANGED <<emergency_active, traffic_signal_state, timers,
                   reset_at_124, reset_at_125, elapsed, loopLocals>>
    /\ UNCHANGED <<transitions, fpsLocals, exit_code, released>>

TriggerArm_Short ==
    /\ pc = "trig_arm"
    /\ timers' = Append(timers, DwellTime - 1)
    /\ pc' = "draw"
    /\ UNCHANGED <<emergency_active, traffic_signal_state, stats,
                   reset_at_124, reset_at_125, elapsed, loopLocals>>
    /\ UNCHANGED <<transitions, fpsLocals, exit_code, released>>

TriggerArm_NotStarted ==
    /\ pc = "trig_arm"
    /\ pc' = "draw"
    /\ UNCHANGED <<controller, loopLocals>>
    /\ UNCHANGED <<transitions, fpsLocals, exit_code, released>>

\* line 118: threading.Timer(30.0, self.reset_emergency_protocol).start()
TriggerArm ==
    /\ pc = "trig_arm"
    /\ timers' = Append(timers, DwellTime)
    /\ pc' = "draw"
    /\ UNCHANGED <<emergency_active, traffic_signal_state, stats,
                   reset_at_124, reset_at_125, elapsed, loopLocals>>
    /\ UNCHANGED <<transitions, fpsLocals, exit_code, released>>

\* line 158: draw_detections
Draw ==
    /\ pc = "draw"
    /\ pc' = "overlay_187"
    /\ UNCHANGED <<controller, loopLocals>>
    /\ UNCHANGED <<transitions, fpsLocals, exit_code, released>>

\* line 158 or 159 raises: nothing catches it, the finally block runs
RenderFails ==
    /\ pc \in {"draw", "overlay_187"}
    /\ raised' = TRUE
    /\ pc' = "finally"
    /\ UNCHANGED <<confidence_threshold, frame, detections, controller,
                   overlay, cap_open, sighted>>
    /\ UNCHANGED <<transitions, fpsLocals, exit_code, released>>

\* line 187: add_info_overlay reads the flag for the status colour
Overlay187 ==
    /\ pc = "overlay_187"
    /\ overlay' = [overlay EXCEPT
                      !.color = IF emergency_active THEN "green" ELSE "white"]
    /\ pc' = "overlay_191"
    /\ UNCHANGED <<confidence_threshold, frame, detections, controller,
                   raised, cap_open, sighted>>
    /\ UNCHANGED <<transitions, fpsLocals, exit_code, released>>

\* line 191: reads the flag again for the "Emergency:" text
Overlay191 ==
    /\ pc = "overlay_191"
    /\ overlay' = [overlay EXCEPT
                      !.emergency = IF emergency_active THEN "ACTIVE" ELSE "NORMAL"]
    /\ pc' = "overlay_192"
    /\ UNCHANGED <<confidence_threshold, frame, detections, controller,
                   raised, cap_open, sighted>>
    /\ UNCHANGED <<transitions, fpsLocals, exit_code, released>>

\* lines 192-199: reads the signal colour for the "Signal:" text, draws the texts
Overlay192 ==
    /\ pc = "overlay_192"
    /\ overlay' = [overlay EXCEPT !.signal = traffic_signal_state]
    /\ pc' = "measure"
    /\ UNCHANGED <<confidence_threshold, frame, detections, controller,
                   raised, cap_open, sighted>>
    /\ UNCHANGED <<transitions, fpsLocals, exit_code, released>>

\* 1.0 / processing_time, for a time in milliseconds that divides 1000
Fps(ms) == IF ms > 0 THEN 1000 \div ms ELSE -(1000 \div (-ms))

AppendMaxlen_Unbounded(q, x) == Append(q, x)

\* lines 141, 164: deque(maxlen=30).append drops the oldest sample when full
AppendMaxlen(q, x) ==
    IF Len(q) = FpsWindow THEN Append(Tail(q), x) ELSE Append(q, x)

RECURSIVE SumSeq(_)
\* line 165: sum(fps_counter)
SumSeq(q) == IF q = <<>> THEN 0 ELSE Head(q) + SumSeq(Tail(q))

\* line 162: the second reading of the clock
MeasureTime ==
    /\ pc = "measure"
    /\ \E t \in FrameTimes :
          /\ \/ t \in SteadyTimes
             \/ Cardinality({i \in 1..Len(samples) :
                                samples[i] # Fps(20)}) < MaxUnusual
          /\ processing_time' = <<t>>
    /\ pc' = "fps"
    /\ UNCHANGED <<controller, loopLocals, transitions, fps_counter, avg_fps,
                   samples, exit_code, released>>

\* lines 163-167: the sample, the window, the average
ComputeFps ==
    /\ pc = "fps"
    /\ processing_time[1] # 0
    /\ fps_counter' = AppendMaxlen(fps_counter, Fps(processing_time[1]))
    /\ avg_fps' = [num |-> SumSeq(fps_counter'), den |-> Len(fps_counter')]
    /\ samples' = Append(samples, Fps(processing_time[1]))
    /\ pc' = "show"
    /\ UNCHANGED <<controller, loopLocals, transitions, processing_time,
                   exit_code, released>>

\* lines 163-167 with the window left out, which only line 165 reads
ComputeFpsUnrecorded ==
    /\ pc = "fps"
    /\ processing_time[1] # 0
    /\ pc' = "show"
    /\ UNCHANGED <<controller, loopLocals, transitions, fpsLocals, exit_code,
                   released>>

\* line 163 with processing_time 0.0: ZeroDivisionError, the finally block runs
FpsFails ==
    /\ pc = "fps"
    /\ processing_time[1] = 0
    /\ raised' = TRUE
    /\ pc' = "finally"
    /\ UNCHANGED <<confidence_threshold, frame, detections, controller,
                   overlay, cap_open, sighted, transitions, fpsLocals,
                   exit_code, released>>

\* lines 169-170, no key 'q': the frame is shown, next iteration
Present ==
    /\ pc = "show"
    /\ pc' = "read"
    /\ frame' = NoFrame
    /\ detections' = <<>>
    /\ overlay' = NoOverlay
    /\ UNCHANGED <<confidence_threshold, controller, raised, cap_open, sighted>>
    /\ processing_time' = NoTime
    /\ avg_fps' = NoAverage
    /\ UNCHANGED <<transitions, fps_counter, samples, exit_code, released>>

\* lines 169-171, key 'q': break
Quit ==
    /\ pc = "show"
    /\ pc' = "finally"
    /\ UNCHANGED <<confidence_threshold, frame, detections, controller,
                   overlay, raised, cap_open, sighted>>
    /\ UNCHANGED <<transitions, fpsLocals, exit_code, released>>

\* lines 173-176: cap.release(), then return or re-raise
Finally ==
    /\ pc = "finally"
    /\ cap_open' = FALSE
    /\ pc' = "done"
    /\ UNCHANGED <<confidence_threshold, frame, detections, controller,
                   overlay, raised, sighted>>
    /\ released' = released + 1
    /\ UNCHANGED <<transitions, fpsLocals, exit_code>>

----------------------------------------------------------------------------
(* main *)

\* lines 212-215: best.pt is missing; main prints and returns
ModelMissing ==
    /\ pc = "main"
    /\ pc' = "no_model"
    /\ UNCHANGED <<controller, loopLocals, transitions, fpsLocals, exit_code,
                   released>>

\* lines 212-225: the detector is constructed, process_video_stream is called
ModelFound ==
    /\ pc = "main"
    /\ pc' = "open"
    /\ UNCHANGED <<controller, loopLocals, transitions, fpsLocals, exit_code,
                   released>>

\* lines 215, 227-230: main returns and the interpreter ends with status 0,
\* or the exception of the loop reaches the top level: status 1
Exit ==
    /\ pc \in {"no_model", "returned", "done"}
    /\ exit_code' = IF raised THEN <<1>> ELSE <<0>>
    /\ pc' = "exited"
    /\ UNCHANGED <<controller, loopLocals, transitions, fpsLocals, released>>

----------------------------------------------------------------------------
(* The Timer threads: threading.Timer and reset_emergency_protocol *)

RemoveAt(s, i) == [k \in 1..(Len(s) - 1) |-> IF k < i THEN s[k] ELSE s[k + 1]]

\* one unit of time passes; the loop thread is waiting for a frame or has
\* returned (the interpreter waits for the Timer threads before it ends), no
\* timer is due and no callback is running
Tick ==
    /\ pc \in {"read", "done", "exited"}
    /\ timers # <<>>
    /\ \A i \in 1..Len(timers) : timers[i] > 0
    /\ reset_at_124 = 0
    /\ reset_at_125 = 0
    /\ timers' = [i \in 1..Len(timers) |-> timers[i] - 1]
    /\ elapsed' = IF emergency_active THEN elapsed + 1 ELSE elapsed
    /\ UNCHANGED <<pc, emergency_active, traffic_signal_state, stats,
                   reset_at_124, reset_at_125, loopLocals>>
    /\ UNCHANGED <<transitions, fpsLocals, exit_code, released>>

\* line 118: a started Timer whose interval has passed calls its function
TimerFire ==
    /\ \E i \in 1..Len(timers) :
          /\ timers[i] = 0
          /\ timers' = RemoveAt(timers, i)
    /\ reset_at_124' = reset_at_124 + 1
    /\ UNCHANGED <<pc, emergency_active, traffic_signal_state, stats,
                   reset_at_125, elapsed, loopLocals>>
    /\ UNCHANGED <<transitions, fpsLocals, exit_code, released>>

ResetActive_Counting ==
    /\ reset_at_124 > 0
    /\ emergency_active' = FALSE
    /\ stats' = [stats EXCEPT !.signal_changes = @ + 1]
    /\ elapsed' = 0
    /\ reset_at_124' = reset_at_124 - 1
    /\ reset_at_125' = reset_at_125 + 1
    /\ UNCHANGED <<pc, traffic_signal_state, timers, loopLocals>>
    /\ UNCHANGED <<transitions, fpsLocals, exit_code, released>>

ResetActive_ClearsStats ==
    /\ reset_at_124 > 0
    /\ emergency_active' = FALSE
    /\ stats' = [total_detections |-> 0, signal_changes |-> 0]
    /\ elapsed' = 0
    /\ reset_at_124' = reset_at_124 - 1
    /\ reset_at_125' = reset_at_125 + 1
    /\ UNCHANGED <<pc, traffic_signal_state, timers, loopLocals>>
    /\ UNCHANGED <<transitions, fpsLocals, exit_code, released>>

\* line 124
ResetActive ==
    /\ reset_at_124 > 0
    /\ emergency_active' = FALSE
    /\ elapsed' = 0
    /\ reset_at_124' = reset_at_124 - 1
    /\ reset_at_125' = reset_at_125 + 1
    /\ UNCHANGED <<pc, traffic_signal_state, stats, timers, loopLocals>>
    /\ UNCHANGED <<transitions, fpsLocals, exit_code, released>>

\* lines 125-126
ResetSignal ==
    /\ reset_at_125 > 0
    /\ traffic_signal_state' = "RED"
    /\ reset_at_125' = reset_at_125 - 1
    /\ UNCHANGED <<pc, emergency_active, stats, timers, reset_at_124,
                   elapsed, loopLocals>>
    /\ UNCHANGED <<transitions, fpsLocals, exit_code, released>>

----------------------------------------------------------------------------
(* The program *)

Loop ==
    \/ ModelMissing \/ ModelFound \/ Exit
    \/ OpenOk \/ OpenFails \/ ReadFrame \/ ReadEnd \/ Detect \/ DetectFails
    \/ CountDetections \/ TriggerCheck \/ TriggerActive \/ TriggerSignal
    \/ TriggerStats \/ TriggerArm \/ Draw \/ RenderFails \/ Overlay187
    \/ Overlay191 \/ Overlay192 \/ MeasureTime \/ ComputeFpsUnrecorded
    \/ FpsFails \/ Present \/ Quit \/ Finally

Next ==
    \/ ModelMissing \/ ModelFound \/ Exit
    \/ OpenOk \/ OpenFails \/ ReadFrame \/ ReadEnd \/ Detect \/ DetectFails
    \/ CountDetections \/ TriggerCheck \/ TriggerActive \/ TriggerSignal
    \/ TriggerStats \/ TriggerArm \/ Draw \/ RenderFails \/ Overlay187
    \/ Overlay191 \/ Overlay192 \/ MeasureTime \/ ComputeFpsUnrecorded
    \/ FpsFails \/ Present \/ Quit \/ Finally
    \/ Tick \/ TimerFire \/ ResetActive \/ ResetSignal

Spec == Init /\ [][Next]_vars

----------------------------------------------------------------------------
(* The detection filter alone: any frame, any threshold *)

FilterInit ==
    /\ pc = "detect"
    /\ confidence_threshold \in Thresholds
    /\ frame \in FilterFrames
    /\ detections = <<>>
    /\ emergency_active = FALSE
    /\ traffic_signal_state = "RED"
    /\ stats = [total_detections |-> 0, signal_changes |-> 0]
    /\ timers = <<>>
    /\ reset_at_124 = 0
    /\ reset_at_125 = 0
    /\ overlay = NoOverlay
    /\ raised = FALSE
    /\ cap_open = TRUE
    /\ elapsed = 0
    /\ sighted = 0
    /\ transitions = 0
    /\ processing_time = NoTime
    /\ fps_counter = <<>>
    /\ avg_fps = NoAverage
    /\ samples = <<>>
    /\ exit_code = NotExited
    /\ released = 0

FilterNext == Detect

FilterSpec == FilterInit /\ [][FilterNext]_vars

----------------------------------------------------------------------------
(* The endless stream (a camera): the statistics are left out, which no    *)
(* test of the program reads, so the counters stay bounded while frames    *)
(* keep arriving.                                                          *)

\* line 145, ret true
ReadFrameLive ==
    /\ pc = "read"
    /\ \E f \in StreamFrames : frame' = f
    /\ pc' = "detect"
    /\ UNCHANGED <<confidence_threshold, detections, controller, overlay,
                   raised, cap_open, sighted>>
    /\ UNCHANGED <<transitions, fpsLocals, exit_code, released>>

\* lines 154-156 without line 155's count
CountDetectionsLive ==
    /\ pc = "count"
    /\ pc' = IF detections # <<>> THEN "trig_check" ELSE "draw"
    /\ UNCHANGED <<controller, loopLocals>>
    /\ UNCHANGED <<transitions, fpsLocals, exit_code, released>>

\* line 111 without the count of transitions
TriggerActiveLive ==
    /\ pc = "trig_active"
    /\ emergency_active' = TRUE
    /\ elapsed' = 0
    /\ pc' = "trig_signal"
    /\ UNCHANGED <<traffic_signal_state, stats, timers, reset_at_124,
                   reset_at_125, loopLocals, transitions, fpsLocals,
                   exit_code, released>>

\* line 113 without the count
TriggerStatsLive ==
    /\ pc = "trig_stats"
    /\ pc' = "trig_arm"
    /\ UNCHANGED <<controller, loopLocals>>
    /\ UNCHANGED <<transitions, fpsLocals, exit_code, released>>

LiveLoop ==
    \/ ModelMissing \/ ModelFound \/ Exit
    \/ OpenOk \/ OpenFails \/ ReadFrameLive \/ ReadEnd \/ Detect \/ DetectFails
    \/ CountDetectionsLive \/ TriggerCheck \/ TriggerActiveLive \/ TriggerSignal
    \/ TriggerStatsLive \/ TriggerArm \/ Draw \/ RenderFails \/ Overlay187
    \/ Overlay191 \/ Overlay192 \/ MeasureTime \/ ComputeFpsUnrecorded
    \/ FpsFails \/ Present \/ Quit \/ Finally

LiveNext ==
    \/ ModelMissing \/ ModelFound \/ Exit
    \/ OpenOk \/ OpenFails \/ ReadFrameLive \/ ReadEnd \/ Detect \/ DetectFails
    \/ CountDetectionsLive \/ TriggerCheck \/ TriggerActiveLive \/ TriggerSignal
    \/ TriggerStatsLive \/ TriggerArm \/ Draw \/ RenderFails \/ Overlay187
    \/ Overlay191 \/ Overlay192 \/ MeasureTime \/ ComputeFpsUnrecorded
    \/ FpsFails \/ Present \/ Quit \/ Finally
    \/ Tick \/ TimerFire \/ ResetActive \/ ResetSignal

\* every runnable thread is scheduled, a due Timer calls its function, and
\* time passes
LiveSpec ==
    /\ Init
    /\ [][LiveNext]_vars
    /\ WF_vars(LiveLoop)
    /\ WF_vars(TimerFire)
    /\ WF_vars(ResetActive)
    /\ WF_vars(ResetSignal)
    /\ SF_vars(Tick)

----------------------------------------------------------------------------
(* The fps window alone: a stream of frames without boxes, so that the     *)
(* controller stays idle while the window fills and turns over.            *)

\* line 145, ret true: a frame in which the model finds nothing
ReadFrameQuiet ==
    /\ pc = "read"
    /\ Len(samples) < MaxSamples
    /\ frame' = QuietFrame
    /\ pc' = "detect"
    /\ UNCHANGED <<confidence_threshold, detections, controller, overlay,
                   raised, cap_open, sighted, transitions, fpsLocals,
                   exit_code, released>>

FpsNext ==
    \/ ModelFound \/ OpenOk \/ ReadFrameQuiet \/ Detect \/ CountDetections
    \/ Draw \/ Overlay187 \/ Overlay191 \/ Overlay192 \/ MeasureTime
    \/ ComputeFps \/ FpsFails \/ Present \/ Finally \/ Exit

FpsSpec == Init /\ [][FpsNext]_vars

----------------------------------------------------------------------------
(* reset_emergency_protocol alone, as a function of the object's fields:   *)
(* the loop has ended, MaxFirings timers are due, the fields hold any      *)
(* values.                                                                 *)

ResetInit ==
    /\ pc = "exited"
    /\ confidence_threshold = DefaultThreshold
    /\ frame = NoFrame
    /\ detections = <<>>
    /\ emergency_active \in BOOLEAN
    /\ traffic_signal_state \in {"RED", "GREEN"}
    /\ stats \in [total_detections : 0..MaxDetections,
                  signal_changes : 0..MaxDetections]
    /\ timers = [i \in 1..MaxFirings |-> 0]
    /\ reset_at_124 = 0
    /\ reset_at_125 = 0
    /\ overlay = NoOverlay
    /\ raised = FALSE
    /\ cap_open = FALSE
    /\ elapsed = 0
    /\ sighted = stats.total_detections
    /\ transitions = stats.signal_changes
    /\ processing_time = NoTime
    /\ fps_counter = <<>>
    /\ avg_fps = NoAverage
    /\ samples = <<>>
    /\ exit_code = <<0>>
    /\ released = 1

ResetNext == TimerFire \/ ResetActive \/ ResetSignal

ResetSpec == ResetInit /\ [][ResetNext]_vars

----------------------------------------------------------------------------
(* Properties *)

\* C1: a call of trigger_emergency_protocol made while the flag is set
\* returns at once: the flag stays set, signal_changes is not incremented
\* and no timer is started.
C1_RetriggerIsNoOp ==
    [][(pc = "trig_check" /\ emergency_active /\ pc' # pc)
          => /\ pc' = "draw"
             /\ emergency_active'
             /\ UNCHANGED <<traffic_signal_state, stats, timers>>]_vars

C1_Witness ==
    /\ pc = "draw"
    /\ detections # <<>>
    /\ stats.total_detections > Len(detections)
    /\ stats.signal_changes = 1
    /\ emergency_active
    /\ Len(timers) = 1

\* C2: at most one started Timer is waiting to fire, in every reachable
\* state of every interleaving of the loop thread with the Timer threads.
C2_AtMostOnePendingTimer == Len(timers) <= 1

C2_Witness ==
    /\ Len(timers) = 1
    /\ reset_at_125 = 1
    /\ emergency_active

\* C3: what add_info_overlay read for one frame agrees: "ACTIVE" is shown
\* with GREEN and "NORMAL" with RED.
C3_OverlayNeverTorn ==
    pc = "show" => (overlay.emergency = "ACTIVE" <=> overlay.signal = "GREEN")

\* C4: the flag is set only by the trigger called for a frame with
\* detections, and cleared only by a Timer thread's line 124; a frame
\* without detections changes nothing of the controller, so while no
\* sighting has been counted the state is NORMAL, RED, signal_changes 0.
C4_OnlyTwoTransitions ==
    [][/\ (~emergency_active /\ emergency_active')
            => (pc = "trig_active" /\ pc' = "trig_signal" /\ detections # <<>>)
       /\ (emergency_active /\ ~emergency_active')
            => (reset_at_124' = reset_at_124 - 1 /\ pc' = pc)
       /\ (pc = "count" /\ detections = <<>> /\ pc' # pc)
            => (pc' = "draw" /\ UNCHANGED controller)
       /\ (sighted' = 0)
            => /\ ~emergency_active'
               /\ traffic_signal_state' = "RED"
               /\ stats'.signal_changes = 0]_vars

C4_Witness ==
    /\ pc = "draw"
    /\ frame # NoFrame
    /\ detections = <<>>
    /\ emergency_active
    /\ stats.signal_changes = 1

\* C5: with fair threads and passing time, whenever the flag is set, a
\* later state has the flag clear and the signal RED.
C5_EmergencyLeadsToNormalRed ==
    emergency_active ~> (~emergency_active /\ traffic_signal_state = "RED")

\* C6: line 124 of a Timer thread clears the flag whatever it was, line 125
\* sets RED, and neither changes a counter.
C6_ResetEffect ==
    [][/\ (reset_at_124' < reset_at_124)
            => (~emergency_active' /\ stats' = stats)
       /\ (reset_at_125' < reset_at_125)
            => /\ traffic_signal_state' = "RED"
               /\ stats' = stats
               /\ emergency_active' = emergency_active]_vars

C6_Witness ==
    /\ reset_at_125 = 1
    /\ ~emergency_active
    /\ traffic_signal_state = "GREEN"
    /\ stats.signal_changes = 1
    /\ stats.total_detections >= 1

\* C7: the flag is cleared exactly 30 ticks after it was set: never earlier,
\* never later, and a trigger call during the period changes neither the
\* timer nor the time already elapsed.
C7_DwellIsExact ==
    [][/\ (emergency_active /\ ~emergency_active') => elapsed = 30
       /\ emergency_active' => elapsed' <= 30
       /\ (pc = "trig_check" /\ emergency_active /\ pc' # pc)
            => UNCHANGED <<timers, elapsed>>]_vars

C7_Witness ==
    /\ pc = "read"
    /\ reset_at_125 = 1
    /\ ~emergency_active
    /\ stats.signal_changes = 1
    /\ stats.total_detections = 3

\* C8: a frame whose inference or rendering raises is skipped: the loop
\* goes on to read the next frame, the controller as it was.
C8_FailedFrameIsSkipped ==
    [][(~raised /\ raised')
          => (pc' = "read" /\ UNCHANGED <<emergency_active, stats, timers>>)]_vars

\* the boxes of all results, in order
RECURSIVE FlatBoxes(_, _)
FlatBoxes(results, r) ==
    IF r > Len(results) THEN <<>>
    ELSE (IF results[r].none THEN <<>> ELSE results[r].items)
             \o FlatBoxes(results, r + 1)

TruncatedTo(x, c) ==
    \/ x >= 0 /\ 10 * c <= x /\ x < 10 * c + 10
    \/ x < 0 /\ 10 * c >= x /\ x > 10 * c - 10

IsSubsequenceOfKept(out, boxes, thr) ==
    \E f \in [1..Len(out) -> 1..Len(boxes)] :
        /\ \A i, j \in 1..Len(out) : i < j => f[i] < f[j]
        /\ {f[i] : i \in 1..Len(out)} =
              {j \in 1..Len(boxes) :
                  /\ boxes[j].conf > thr
                  /\ ModelNames[boxes[j].cls] \in
                        {ModelNames[1], ModelNames[2], ModelNames[3]}}
        /\ \A i \in 1..Len(out) :
              /\ out[i].confidence = boxes[f[i]].conf
              /\ \A k \in 1..4 : TruncatedTo(boxes[f[i]].xyxy[k], out[i].bbox[k])

\* C9: detect_in_frame returns, in input order and with repetitions kept,
\* exactly the boxes whose class name is "ambulance" in any letter case and
\* whose confidence is strictly above the threshold.
C9_FilterIsKeptSubsequence ==
    pc = "count" =>
        IsSubsequenceOfKept(detections, FlatBoxes(frame, 1), confidence_threshold)

C9_Witness ==
    /\ pc = "count"
    /\ Len(frame[1].items) = 2
    /\ frame[1].items[1].conf = confidence_threshold
    /\ frame[1].items[1].cls = 1
    /\ frame[1].items[2].conf > confidence_threshold
    /\ frame[1].items[2].cls = 3
    /\ Len(detections) = 1

\* C10: total_detections is the number of sightings of the frames counted
\* so far, whether the flag was set or not when they were counted.
C10_TotalIsSumOfSightings == stats.total_detections = sighted

C10_Witness ==
    /\ pc = "trig_check"
    /\ emergency_active
    /\ sighted > Len(detections)
    /\ stats.total_detections = sighted
    /\ stats.signal_changes = 1


InTrigger == pc \in {"trig_check", "trig_active", "trig_signal", "trig_stats",
                     "trig_arm"}

C12_CountersNeverDecrease ==
    [][/\ stats'.total_detections >= stats.total_detections
       /\ stats'.signal_changes >= stats.signal_changes]_vars

C12_Witness ==
    /\ pc = "trig_arm"
    /\ reset_at_125 = 1
    /\ stats.signal_changes = 2
    /\ stats.total_detections >= 2

LastSamples(k) == [i \in 1..k |-> samples[Len(samples) - k + i]]

RECURSIVE SumOfLast(_)
SumOfLast(k) ==
    IF k = 0 THEN 0 ELSE samples[Len(samples) - k + 1] + SumOfLast(k - 1)

InWindow == IF Len(samples) < 30 THEN Len(samples) ELSE 30

\* C13: the window holds at most 30 samples, namely the last min(n, 30) of
\* the n samples recorded, oldest first, and the average shown is their sum
\* over their number.
C13_WindowIsLastThirty ==
    /\ Len(fps_counter) <= 30
    /\ fps_counter = LastSamples(InWindow)
    /\ (pc = "show") =>
          /\ avg_fps.den = InWindow
          /\ avg_fps.num = SumOfLast(InWindow)

C13_Witness ==
    /\ pc = "show"
    /\ Len(samples) = 32
    /\ samples[2] # samples[1]
    /\ samples[32] = samples[1]
    /\ Len(fps_counter) = 30

\* C14: a frame whose processing_time is zero or negative raises nothing:
\* the window gets the sample 0 or no sample, and the loop goes on to show
\* the frame.
C14_NonPositiveTimeIsHarmless ==
    [][(pc = "fps" /\ processing_time[1] <= 0 /\ pc' # pc)
          => /\ ~raised'
             /\ pc' = "show"
             /\ \/ fps_counter' = fps_counter
                \/ fps_counter' = AppendMaxlen(fps_counter, 0)]_vars

\* C15: the loop is left only from the read that fails and from the quit
\* poll at the end of an iteration.
C15_LoopEndsOnlyOnEndOrQuit ==
    [][(pc # "finally" /\ pc' = "finally")
          => (pc \in {"read", "show"} /\ ~raised')]_vars

\* C16: the exit status is 0 after a clean end of the stream or a quit, and
\* not 0 when the model file is missing or the source does not open.
C16_ExitStatusTellsFailure ==
    [][(pc # "exited" /\ pc' = "exited")
          => /\ (pc \in {"no_model", "returned"}) => exit_code' # <<0>>
             /\ (pc = "done" /\ ~raised) => exit_code' = <<0>>]_vars

FiringsDone == MaxFirings - Len(timers) - reset_at_124 - reset_at_125

\* C17: a firing of the reset changes no counter; in the state NORMAL with
\* RED it changes nothing; and once one firing is complete, the state is
\* NORMAL with RED however many more firings complete.
C17_ResetIsIdempotent ==
    [][/\ stats' = stats
       /\ (~emergency_active /\ traffic_signal_state = "RED")
            => (~emergency_active' /\ traffic_signal_state' = "RED")
       /\ (FiringsDone' >= 1 /\ reset_at_125' = 0)
            => (~emergency_active' /\ traffic_signal_state' = "RED")]_vars

C17_Witness ==
    /\ pc = "exited"
    /\ FiringsDone = MaxFirings
    /\ ~emergency_active
    /\ traffic_signal_state = "RED"
    /\ stats.signal_changes = 1
    /\ stats.total_detections = 2

\* C18: while neither the trigger nor a reset is part-way, the flag is set
\* exactly when the signal is GREEN.
C18_FlagMatchesColourAtRest ==
    (~InTrigger /\ reset_at_124 = 0 /\ reset_at_125 = 0)
        => (emergency_active <=> traffic_signal_state = "GREEN")

\* C19: while the trigger is not part-way, a set flag has a reset
\* outstanding: a timer waiting, or a callback that has begun.
C19_SetFlagHasResetOutstanding ==
    (~InTrigger /\ emergency_active)
        => Len(timers) + reset_at_124 + reset_at_125 >= 1

C19_Witness ==
    /\ pc = "exited"
    /\ emergency_active
    /\ Len(timers) = 1
    /\ timers[1] > 0

InLoop == pc \in {"read", "detect", "count", "trig_check", "trig_active",
                  "trig_signal", "trig_stats", "trig_arm", "draw",
                  "overlay_187", "overlay_191", "overlay_192", "measure",
                  "fps", "show"}

\* C20: an opened source is released once, by the finally block, on every
\* way out of the loop; frames are read only before the release; a source
\* that does not open is never read and never released.
C20_ReleasedExactlyOnce ==
    [][/\ released' <= 1
       /\ InLoop' => (cap_open' /\ released' = 0)
       /\ (InLoop /\ ~InLoop') => pc' = "finally"
       /\ (pc' = "done") => (~cap_open' /\ released' = 1)
       /\ (pc = "read" /\ pc' = "detect") => (cap_open /\ released = 0)
       /\ (pc' \in {"returned", "no_model"})
            => (~cap_open' /\ released' = 0 /\ frame' = NoFrame)
       /\ (pc = "returned") => pc' \in {"returned", "exited"}]_vars

C20_Witness ==
    /\ pc = "done"
    /\ raised
    /\ released = 1
    /\ ~cap_open
    /\ stats.signal_changes = 1

====
